---- MODULE Spec2Model ----
(***************************************************************************)
(* Model of the IoT smart-office data managers:                            *)
(*   - DataManagerMQTT / DataManagerApp   (data_manager/data_manager.py)   *)
(*   - MqttDataCollector                  (data_manager/data_collector.py) *)
(*   - DatabaseManager inserts            (database/db_manager.py)         *)
(*   - TOPICS                             (config/mqtt_config.py)          *)
(* Floats are modelled by integers (all thresholds of the source are       *)
(* whole numbers); a JSON value is a tagged record so that an absent key,  *)
(* a null, a number and a non-numeric string stay distinguishable.         *)
(***************************************************************************)
EXTENDS Integers, Sequences, FiniteSets, TLC

(***************************************************************************)
(* Bounds                                                                  *)
(***************************************************************************)
\* number of bus messages delivered to the running program
MaxMsgs == 3

\* largest threshold and reading the evaluators are compared on exhaustively
MaxLevel == 5

\* number of DatabaseManager calls made by the threads of one process
MaxCalls == 3

(***************************************************************************)
(* JSON values                                                             *)
(***************************************************************************)
Absent == [tag |-> "absent", v |-> 0]
NoneV == [tag |-> "none", v |-> 0]
StrV == [tag |-> "str", v |-> 0]
Num(n) == [tag |-> "num", v |-> n]

IsNum(x) == x.tag = "num"

\* dict.get(key): an absent key reads as None
Get(x) == IF x.tag = "absent" THEN NoneV ELSE x

\* `key in payload`
HasKey(x) == x.tag # "absent"

(***************************************************************************)
(* config/mqtt_config.py                                                   *)
(***************************************************************************)
TOPIC_NAMESPACE == "smart_office"

TopicKeys ==
  {"dht_sensor", "button_actuator", "relay_actuator", "warnings", "alarms",
   "data_manager", "all_sensors", "all_actuators", "all_topics"}

TOPICS ==
  [k \in TopicKeys |->
     CASE k = "dht_sensor" -> "smart_office/sensors/dht"
       [] k = "button_actuator" -> "smart_office/actuators/button"
       [] k = "relay_actuator" -> "smart_office/actuators/relay"
       [] k = "warnings" -> "smart_office/alerts/warnings"
       [] k = "alarms" -> "smart_office/alerts/alarms"
       [] k = "data_manager" -> "smart_office/manager/status"
       [] k = "all_sensors" -> "smart_office/sensors/+"
       [] k = "all_actuators" -> "smart_office/actuators/+"
       [] k = "all_topics" -> "smart_office/#"]

\* TOPICS[key] raises KeyError for a key the dict does not hold
TopicResolves(key) == key \in DOMAIN TOPICS

TopicOf(key) == IF TopicResolves(key) THEN TOPICS[key] ELSE "<KeyError>"

(***************************************************************************)
(* Inbound messages                                                        *)
(***************************************************************************)
\* payload.get('device_type', 'Unknown')
DeviceTypeOf(p) == IF p.device_type = "<absent>" THEN "Unknown" ELSE p.device_type

\* `marker in device_type` for the markers the source tests
Contains(dt, marker) ==
  CASE marker = "DHT_Sensor" -> dt = "DHT_Sensor"
    [] marker = "Actuator" -> dt = "Button_Actuator"
    [] marker = "Occupancy_Sensor" -> dt = "Occupancy_Sensor"
    [] marker = "AC_Controller" -> dt = "AC_Controller"
    [] marker = "button" -> dt = "Button_Actuator"
    [] marker = "relay" -> dt = "relay_1"
    [] OTHER -> FALSE

\* `x in device_type` raises TypeError when device_type is not a string;
\* "<int>" stands for such a value
IsString(dt) == dt # "<int>"

Payload(dt, t, h, a, s, o) ==
  [json |-> "object", device_type |-> dt, temperature |-> t, humidity |-> h,
   action |-> a, state |-> s, occupancy |-> o]

NoField == "<absent>"

\* temperatures: under the default thresholds 15 / 18 / 28 / 32 an alarm, a
\* low warning, a reading inside the band and a high warning; 14, 17 and 30
\* are bounds of the first threshold form, under which 25 lies above the band
TempVals == {14, 17, 25, 30}

\* humidity sent with each temperature: 20 raises a humidity alarm under
\* both threshold sets of the source, 50 raises nothing
HumOf(t) == IF t \in {14, 17} THEN 20 ELSE 50

\* messages as the DHT emulator sends them, and variants: a reading without
\* humidity from another device type, a null temperature, a message without
\* the temperature key, a temperature that is not a number
SensorPayloads ==
  {Payload("DHT_Sensor", Num(t), Num(HumOf(t)), Absent, NoField, NoField) : t \in TempVals}
  \cup {Payload("Gadget", Num(30), Absent, Absent, NoField, NoField),
        Payload("DHT_Sensor", NoneV, Num(50), Absent, NoField, NoField),
        Payload("DHT_Sensor", Absent, Num(20), Absent, NoField, NoField),
        Payload("DHT_Sensor", StrV, Num(50), Absent, NoField, NoField)}

\* the OccupancySensor.toggle_occupancy payload, and payloads that carry the
\* occupancy field only
OccupancyPayloads ==
  {Payload("Occupancy_Sensor", Absent, Absent, Num(1), "ON", "Occupied"),
   Payload("Occupancy_Sensor", Absent, Absent, Absent, NoField, "Occupied"),
   Payload("Occupancy_Sensor", Absent, Absent, Absent, NoField, "Vacant")}

\* the ACController.set_ac_state payload, and a report without action/state
ControllerPayloads ==
  {Payload("AC_Controller", Absent, Absent, Num(1), "ON", NoField),
   Payload("AC_Controller", Absent, Absent, Absent, NoField, NoField)}

\* a generic actuator, a device only the collector takes for an actuator, a
\* device no branch of either coordinator knows, a device_type that is not a
\* string, a JSON array
OtherPayloads ==
  {Payload("Button_Actuator", Absent, Absent, Num(1), "ON", NoField),
   Payload("relay_1", Absent, Absent, Absent, NoField, NoField),
   Payload("Gadget", Absent, Absent, Absent, NoField, NoField),
   Payload("<int>", Absent, Absent, Absent, NoField, NoField),
   [Payload("<absent>", Absent, Absent, Absent, NoField, NoField) EXCEPT !.json = "array"]}

\* the payload send_ac_control_command builds for turn_off in a vacant office
\* at 30 degrees (command, reason, timestamp, temperature, occupancy; no
\* device_type), as the bus delivers it to a subscriber of smart_office/#
CommandPayloads ==
  {Payload("<absent>", Num(30), Absent, Absent, NoField, "Vacant")}

Payloads ==
  SensorPayloads \cup OccupancyPayloads \cup ControllerPayloads \cup OtherPayloads
  \cup CommandPayloads

NoPayload == [Payload("<absent>", Absent, Absent, Absent, NoField, NoField) EXCEPT !.json = "none"]

\* raw bus payloads: bytes that are not UTF-8, text that is not JSON, JSON
RawMessages ==
  {[enc |-> "badutf8", payload |-> NoPayload], [enc |-> "text", payload |-> NoPayload]}
  \cup {[enc |-> "json", payload |-> p] : p \in Payloads}

(***************************************************************************)
(* Thresholds                                                              *)
(***************************************************************************)
\* DataManagerApp.__init__
DefaultThresholds ==
  [temp_alarm_low |-> 15, temp_warning_low |-> 18,
   temp_warning_high |-> 28, temp_alarm_high |-> 32,
   humidity_alarm_low |-> 25, humidity_warning_low |-> 35,
   humidity_warning_high |-> 70, humidity_alarm_high |-> 85]

\* locals of MqttDataCollector.check_temperature_humidity_thresholds
CollectorThresholds ==
  [temp_alarm_low |-> 18, temp_warning_low |-> 20,
   temp_warning_high |-> 26, temp_alarm_high |-> 28,
   humidity_alarm_low |-> 30, humidity_warning_low |-> 40,
   humidity_warning_high |-> 70, humidity_alarm_high |-> 75]

Ordered(la, lw, hw, ha) == la < lw /\ lw < hw /\ hw < ha

OrderedThresholds(th) ==
  /\ Ordered(th.temp_alarm_low, th.temp_warning_low, th.temp_warning_high, th.temp_alarm_high)
  /\ Ordered(th.humidity_alarm_low, th.humidity_warning_low,
             th.humidity_warning_high, th.humidity_alarm_high)

Alert(sev, th) == [sev |-> sev, thr |-> th]

\* an alert of the collector also carries the 'High' / 'Low' of its alert_type
CAlert(sev, th, dir) == [sev |-> sev, thr |-> th, dir |-> dir]

\* the two tests of handle_message in the other order
AppEvaluate_WarningFirst(v, la, lw, hw, ha) ==
  IF v <= lw \/ v >= hw
    THEN <<Alert("warning", IF v <= lw THEN lw ELSE hw)>>
  ELSE IF v <= la \/ v >= ha
    THEN <<Alert("alarm", IF v <= la THEN la ELSE ha)>>
  ELSE <<>>

\* DataManagerApp.handle_message: the alerts one reading of one quantity
\* raises, in program order (alarm test, elif warning test)
AppEvaluate(v, la, lw, hw, ha) ==
  IF v <= la \/ v >= ha
    THEN <<Alert("alarm", IF v <= la THEN la ELSE ha)>>
  ELSE IF v <= lw \/ v >= hw
    THEN <<Alert("warning", IF v <= lw THEN lw ELSE hw)>>
  ELSE <<>>

\* the four-branch chain with strict comparisons
CollectorEvaluate_Strict(v, la, lw, hw, ha) ==
  IF v > ha THEN <<CAlert("ALARM", ha, "High")>>
  ELSE IF v > hw THEN <<CAlert("WARNING", hw, "High")>>
  ELSE IF v < la THEN <<CAlert("ALARM", la, "Low")>>
  ELSE IF v < lw THEN <<CAlert("WARNING", lw, "Low")>>
  ELSE <<>>

\* MqttDataCollector.check_temperature_humidity_thresholds: the alerts one
\* reading of one quantity raises (four-branch if/elif chain)
CollectorEvaluate(v, la, lw, hw, ha) ==
  IF v >= ha THEN <<CAlert("ALARM", ha, "High")>>
  ELSE IF v >= hw THEN <<CAlert("WARNING", hw, "High")>>
  ELSE IF v <= la THEN <<CAlert("ALARM", la, "Low")>>
  ELSE IF v <= lw THEN <<CAlert("WARNING", lw, "Low")>>
  ELSE <<>>

(***************************************************************************)
(* Effects of one callback, in program order                               *)
(***************************************************************************)
Ev(op, ok, sev, qty, val, th) ==
  [op |-> op, ok |-> ok, sev |-> sev, qty |-> qty, val |-> val, thr |-> th]

\* operations that the environment can make fail during one callback
DbOps == {"insert_sensor_data", "insert_actuator_data", "insert_alert",
          "insert_system_log"}

\* nothing fails, one insert fails, the store is unavailable, or publishing
\* fails
FailSets == {{}, {"insert_sensor_data"}, {"insert_alert"}, DbOps, {"publish"}}

(***************************************************************************)
(* database/db_manager.py                                                  *)
(* The tables live in the SQLite file; every insert is recorded as an      *)
(* effect of the callback that makes it, with ok = TRUE when the row was   *)
(* committed.  A failed insert raises inside the method, is caught there   *)
(* and writes nothing.                                                     *)
(***************************************************************************)
Raise(s, e) == [s EXCEPT !.exc = e]

\* an except clause has caught s.exc: the callback goes on without it
Caught(s) == [s EXCEPT !.caught = s.exc, !.exc = "none"]

\* DatabaseManager.insert_sensor_data; the row holds the two readings
InsertSensorData(s, f, temperature, humidity) ==
  [s EXCEPT !.trace = Append(@, Ev("insert_sensor_data", "insert_sensor_data" \notin f,
                                   temperature.tag, humidity.tag,
                                   temperature.v, humidity.v))]

\* DatabaseManager.insert_actuator_data; the row holds device_type and state
InsertActuatorData(s, f, device_type, state) ==
  [s EXCEPT !.trace = Append(@, Ev("insert_actuator_data", "insert_actuator_data" \notin f,
                                   device_type, state, 0, 0))]

\* an insert_alert that lets the exception of a failed insert out
InsertAlert_Raising(s, f, sev, qty, val, th) ==
  IF "insert_alert" \in f
    THEN Raise([s EXCEPT !.trace = Append(@, Ev("insert_alert", FALSE, sev, qty, val, th))],
               "OperationalError")
    ELSE [s EXCEPT !.trace = Append(@, Ev("insert_alert", TRUE, sev, qty, val, th))]

\* DatabaseManager.insert_alert; the row holds severity, alert type, value
\* and threshold
InsertAlert(s, f, sev, qty, val, th) ==
  [s EXCEPT !.trace = Append(@, Ev("insert_alert", "insert_alert" \notin f,
                                   sev, qty, val, th))]

\* DatabaseManager.insert_system_log
InsertSystemLog(s, f) ==
  [s EXCEPT !.trace = Append(@, Ev("insert_system_log", "insert_system_log" \notin f,
                                   "", "", 0, 0))]

(***************************************************************************)
(* DataManagerMQTT / DataManagerApp (data_manager/data_manager.py)         *)
(* The handler is computed on a record s of the fields it reads and        *)
(* writes; s.exc is the exception in flight ("none" when there is none),   *)
(* s.trace the effects so far.  env holds what the handler only reads:     *)
(* is_active, mqtt_client, connected, the thresholds thr and the set f of  *)
(* operations that fail during this callback.                              *)
(***************************************************************************)
\* DataManagerApp.log_message: one line in the activity log of the window
LogMessage(s, what) ==
  [s EXCEPT !.trace = Append(@, Ev("log_message", TRUE, what, "", 0, 0))]

\* last_ac_command holds None, True or False
B2S(b) == IF b THEN "True" ELSE "False"

\* DataManagerApp.send_ac_control_command: everything inside try/except
SendAcControlCommand(s, env, turn_on) ==
  LET command == IF turn_on THEN "turn_on" ELSE "turn_off"
      called == [s EXCEPT !.issued = Append(@, command),
                          !.trace = Append(@, Ev("send_ac_control_command", TRUE,
                                                 command, "", 0, 0))]
  IN IF ~TopicResolves("ac_controller_control") THEN called
     ELSE IF "publish" \in env.f THEN called
     ELSE LogMessage(
            [called EXCEPT !.trace = Append(@, Ev("publish", TRUE, command,
                                                  "ac_controller_control", 0, 0))],
            "Auto AC Control")

\* check_and_control_ac without rule 1 (vacant => off)
ShouldAcBeOn_NoVacancyRule(temp, occupancy, th) ==
  IF temp > th.temp_warning_high THEN TRUE
  ELSE IF temp < th.temp_warning_low THEN FALSE
  ELSE FALSE

\* rules 1-3 of check_and_control_ac; should_ac_be_on starts as False and
\* keeps that value when no rule applies
ShouldAcBeOn(temp, occupancy, th) ==
  IF ~occupancy THEN FALSE
  ELSE IF temp > th.temp_warning_high THEN TRUE
  ELSE IF temp < th.temp_warning_low THEN FALSE
  ELSE FALSE

\* the comparison of rule 2 is reached only when the office is occupied
PolicyRaises(temp, occupancy) == occupancy /\ ~IsNum(temp)

\* check_and_control_ac sending its decision on every evaluation, without
\* the comparison with last_ac_command
CheckAndControlAc_Level(s, env) ==
  IF s.exc # "none" THEN s
  ELSE IF ~env.is_active \/ ~env.mqtt_client \/ ~env.connected THEN s
  ELSE IF s.current_temperature.tag = "none" THEN s
  ELSE IF PolicyRaises(s.current_temperature, s.current_occupancy)
    THEN Raise(s, "TypeError")
  ELSE LET should_ac_be_on ==
             ShouldAcBeOn(s.current_temperature.v, s.current_occupancy, env.thr)
       IN [SendAcControlCommand(s, env, should_ac_be_on)
             EXCEPT !.last_ac_command = B2S(should_ac_be_on)]

\* check_and_control_ac recording a command in last_ac_command only when its
\* publish went through
CheckAndControlAc_OnSuccess(s, env) ==
  IF s.exc # "none" THEN s
  ELSE IF ~env.is_active \/ ~env.mqtt_client \/ ~env.connected THEN s
  ELSE IF s.current_temperature.tag = "none" THEN s
  ELSE IF PolicyRaises(s.current_temperature, s.current_occupancy)
    THEN Raise(s, "TypeError")
  ELSE LET should_ac_be_on ==
             ShouldAcBeOn(s.current_temperature.v, s.current_occupancy, env.thr)
           sent == SendAcControlCommand(s, env, should_ac_be_on)
           IsControl(e) == e.op = "publish" /\ e.qty = "ac_controller_control"
       IN IF B2S(should_ac_be_on) # s.last_ac_command
            THEN IF SelectSeq(sent.trace, IsControl) # <<>>
                   THEN [sent EXCEPT !.last_ac_command = B2S(should_ac_be_on)]
                   ELSE sent
            ELSE s

\* check_and_control_ac without the return of lines 463-464
CheckAndControlAc_NoTemperatureGuard(s, env) ==
  IF s.exc # "none" THEN s
  ELSE IF ~env.is_active \/ ~env.mqtt_client \/ ~env.connected THEN s
  ELSE IF PolicyRaises(s.current_temperature, s.current_occupancy)
    THEN Raise(s, "TypeError")
  ELSE LET should_ac_be_on ==
             ShouldAcBeOn(s.current_temperature.v, s.current_occupancy, env.thr)
       IN IF B2S(should_ac_be_on) # s.last_ac_command
            THEN [SendAcControlCommand(s, env, should_ac_be_on)
                    EXCEPT !.last_ac_command = B2S(should_ac_be_on)]
            ELSE s

\* check_and_control_ac recording in last_ac_command a decision it did not
\* send because collection is inactive or the client disconnected
CheckAndControlAc_RecordsSuppressed(s, env) ==
  IF s.exc # "none" THEN s
  ELSE IF s.current_temperature.tag = "none" THEN s
  ELSE IF PolicyRaises(s.current_temperature, s.current_occupancy)
    THEN Raise(s, "TypeError")
  ELSE LET should_ac_be_on ==
             ShouldAcBeOn(s.current_temperature.v, s.current_occupancy, env.thr)
       IN IF B2S(should_ac_be_on) # s.last_ac_command
            THEN IF ~env.is_active \/ ~env.mqtt_client \/ ~env.connected
                   THEN [s EXCEPT !.last_ac_command = B2S(should_ac_be_on)]
                   ELSE [SendAcControlCommand(s, env, should_ac_be_on)
                           EXCEPT !.last_ac_command = B2S(should_ac_be_on)]
            ELSE s

\* DataManagerApp.check_and_control_ac
CheckAndControlAc(s, env) ==
  IF s.exc # "none" THEN s
  ELSE IF ~env.is_active \/ ~env.mqtt_client \/ ~env.connected THEN s
  ELSE IF s.current_temperature.tag = "none" THEN s
  ELSE IF PolicyRaises(s.current_temperature, s.current_occupancy)
    THEN Raise(s, "TypeError")
  ELSE LET should_ac_be_on ==
             ShouldAcBeOn(s.current_temperature.v, s.current_occupancy, env.thr)
       IN IF B2S(should_ac_be_on) # s.last_ac_command
            THEN [SendAcControlCommand(s, env, should_ac_be_on)
                    EXCEPT !.last_ac_command = B2S(should_ac_be_on)]
            ELSE s

\* publish_alarm and publish_warning both publishing under 'warnings'
PublishAlert_OneTopic(s, env, sev, qty, val, th) ==
  LET key == "warnings" IN
  IF ~(env.connected /\ env.mqtt_client) THEN s
  ELSE IF "publish" \in env.f \/ ~TopicResolves(key)
    THEN [s EXCEPT !.trace = Append(@, Ev("publish", FALSE, sev, key, val, th))]
  ELSE [s EXCEPT !.trace = Append(@, Ev("publish", TRUE, sev, key, val, th))]

\* DataManagerMQTT.publish_warning / publish_alarm
PublishAlert(s, env, sev, qty, val, th) ==
  LET key == IF sev = "alarm" THEN "alarms" ELSE "warnings" IN
  IF ~(env.connected /\ env.mqtt_client) THEN s
  ELSE IF "publish" \in env.f \/ ~TopicResolves(key)
    THEN [s EXCEPT !.trace = Append(@, Ev("publish", FALSE, sev, key, val, th))]
  ELSE [s EXCEPT !.trace = Append(@, Ev("publish", TRUE, sev, key, val, th))]

\* one alert of handle_message: insert_alert, publish, counter, activity log
AppAlert(s, env, a, qty, val) ==
  LET stored == InsertAlert(s, env.f, a.sev, qty, val, a.thr)
      sent == PublishAlert(stored, env, a.sev, qty, val, a.thr)
      counted == IF a.sev = "alarm" THEN [sent EXCEPT !.alarm_count = @ + 1]
                 ELSE [sent EXCEPT !.warning_count = @ + 1]
  IN LogMessage(counted, a.sev)

RECURSIVE AppAlerts(_, _, _, _, _)
AppAlerts(s, env, alerts, qty, val) ==
  IF alerts = <<>> THEN s
  ELSE AppAlerts(AppAlert(s, env, Head(alerts), qty, val), env, Tail(alerts), qty, val)

\* alert processing that raises no further alarm once one has been counted
AppProcessAlerts_Once(s, env, x, qty, la, lw, hw, ha) ==
  IF s.exc # "none" \/ x.tag = "none" THEN s
  ELSE IF ~IsNum(x) THEN Raise(s, "TypeError")
  ELSE IF s.alarm_count > 0 THEN s
  ELSE AppAlerts(s, env, AppEvaluate(x.v, la, lw, hw, ha), qty, x.v)

\* "Process alerts for temperature" / "for humidity" of handle_message
AppProcessAlerts(s, env, x, qty, la, lw, hw, ha) ==
  IF s.exc # "none" \/ x.tag = "none" THEN s
  ELSE IF ~IsNum(x) THEN Raise(s, "TypeError")
  ELSE AppAlerts(s, env, AppEvaluate(x.v, la, lw, hw, ha), qty, x.v)

\* an `except` clause catches the exception classes it names; Exception
\* names them all
Catches(clause, e) == clause = "Exception" \/ clause = e

\* the if/elif chain of DataManagerApp.handle_message
AppBranch(p) ==
  LET dt == DeviceTypeOf(p) IN
  IF Contains(dt, "DHT_Sensor") \/ HasKey(p.temperature) \/ HasKey(p.humidity)
    THEN "sensor"
  ELSE IF Contains(dt, "Actuator") \/ HasKey(p.action) \/ p.state # NoField
    THEN "actuator"
  ELSE IF Contains(dt, "Occupancy_Sensor") THEN "occupancy"
  ELSE IF Contains(dt, "AC_Controller") THEN "controller"
  ELSE "unknown"

\* a sensor branch that tracks the temperature field whether or not the
\* message carries a value for it
AppSensor_AlwaysTrack(s, env, p) ==
  LET temp == Get(p.temperature)
      humidity == Get(p.humidity)
      th == env.thr_alerts
      stored == [InsertSensorData(s, env.f, temp, humidity) EXCEPT !.data_count = @ + 1]
      tracked == CheckAndControlAc([stored EXCEPT !.current_temperature = temp], env)
      tchecked == AppProcessAlerts(tracked, env, temp, "Temperature",
                     th.temp_alarm_low, th.temp_warning_low,
                     th.temp_warning_high, th.temp_alarm_high)
      hchecked == AppProcessAlerts(tchecked, env, humidity, "Humidity",
                     th.humidity_alarm_low, th.humidity_warning_low,
                     th.humidity_warning_high, th.humidity_alarm_high)
  IN IF hchecked.exc # "none" THEN hchecked ELSE LogMessage(hchecked, "Data stored")

\* handle_message, sensor branch
AppSensor(s, env, p) ==
  LET temp == Get(p.temperature)
      humidity == Get(p.humidity)
      th == env.thr_alerts
      stored == [InsertSensorData(s, env.f, temp, humidity) EXCEPT !.data_count = @ + 1]
      tracked == IF temp.tag # "none"
                   THEN CheckAndControlAc([stored EXCEPT !.current_temperature = temp], env)
                   ELSE stored
      tchecked == AppProcessAlerts(tracked, env, temp, "Temperature",
                     th.temp_alarm_low, th.temp_warning_low,
                     th.temp_warning_high, th.temp_alarm_high)
      hchecked == AppProcessAlerts(tchecked, env, humidity, "Humidity",
                     th.humidity_alarm_low, th.humidity_warning_low,
                     th.humidity_warning_high, th.humidity_alarm_high)
  IN IF hchecked.exc # "none" THEN hchecked ELSE LogMessage(hchecked, "Data stored")

\* handle_message, actuator branch
AppActuator(s, env, p) ==
  LogMessage([InsertActuatorData(s, env.f, DeviceTypeOf(p), p.state)
                EXCEPT !.data_count = @ + 1],
             "Actuator data stored")

\* handle_message, occupancy branch
AppOccupancy(s, env, p) ==
  LET occupancy_value == IF p.occupancy = NoField THEN "" ELSE p.occupancy
      state_value == IF p.state = NoField THEN "OFF" ELSE p.state
      updated == [s EXCEPT !.current_occupancy =
                     (state_value = "ON" \/ occupancy_value = "Occupied")]
  IN CheckAndControlAc(LogMessage(updated, "Occupancy updated"), env)

\* an AC controller branch that takes the reported state for the last command
AppController_Tracking(s, env, p) ==
  LogMessage([s EXCEPT !.last_ac_command = B2S(p.state = "ON")],
             "AC Controller state updated")

\* handle_message, AC controller branch
AppController(s, env, p) == LogMessage(s, "AC Controller state updated")

\* DataManagerApp.handle_message
HandleMessage(s, env, p) ==
  LET branch == AppBranch(p)
      body == IF p.json # "object" THEN Raise(s, "AttributeError")
              ELSE IF ~IsString(p.device_type) THEN Raise(s, "TypeError")
              ELSE CASE branch = "sensor" -> AppSensor(s, env, p)
                     [] branch = "actuator" -> AppActuator(s, env, p)
                     [] branch = "occupancy" -> AppOccupancy(s, env, p)
                     [] branch = "controller" -> AppController(s, env, p)
                     [] OTHER -> s
  IN IF body.exc # "none" /\ Catches("Exception", body.exc)
       THEN LogMessage(Caught(body), "Error processing message")
       ELSE body

\* on_message with its `except json.JSONDecodeError` clause only
AppOnMessage_JsonOnly(s, env, raw) ==
  LET body == IF raw.enc = "badutf8" THEN Raise(s, "UnicodeDecodeError")
              ELSE IF raw.enc = "text" THEN Raise(s, "JSONDecodeError")
              ELSE HandleMessage(s, env, raw.payload)
  IN IF body.exc = "none" THEN body
     ELSE IF Catches("JSONDecodeError", body.exc) THEN Caught(body)
     ELSE body

\* DataManagerMQTT.on_message
AppOnMessage(s, env, raw) ==
  LET body == IF raw.enc = "badutf8" THEN Raise(s, "UnicodeDecodeError")
              ELSE IF raw.enc = "text" THEN Raise(s, "JSONDecodeError")
              ELSE HandleMessage(s, env, raw.payload)
  IN IF body.exc = "none" THEN body
     ELSE IF Catches("JSONDecodeError", body.exc) THEN Caught(body)
     ELSE IF Catches("Exception", body.exc) THEN Caught(body)
     ELSE body

(***************************************************************************)
(* MqttDataCollector (data_manager/data_collector.py)                      *)
(* env holds connected and the failing operations f.                       *)
(***************************************************************************)
\* MqttDataCollector.create_alert: the insert swallows its own failure, an
\* exception of client.publish propagates to the caller
CreateAlert(s, env, a, qty, val) ==
  IF s.exc # "none" THEN s
  ELSE
    LET stored == InsertAlert(s, env.f, a.sev, qty, val, a.thr)
        key == IF a.sev = "ALARM" THEN "alarms" ELSE "warnings"
    IN IF ~env.connected THEN stored
       ELSE IF ~TopicResolves(key) THEN Raise(stored, "KeyError")
       ELSE IF "publish" \in env.f THEN Raise(stored, "PublishError")
       ELSE [stored EXCEPT !.trace = Append(@, Ev("publish", TRUE, a.sev, key, val, a.thr))]

RECURSIVE CreateAlerts(_, _, _, _, _)
CreateAlerts(s, env, alerts, qty, val) ==
  IF alerts = <<>> THEN s
  ELSE CreateAlerts(CreateAlert(s, env, Head(alerts), qty, val), env, Tail(alerts), qty, val)

\* one quantity of check_temperature_humidity_thresholds
CollectorCheck(s, env, x, qty, la, lw, hw, ha) ==
  IF s.exc # "none" \/ x.tag = "none" THEN s
  ELSE IF ~IsNum(x) THEN Raise(s, "TypeError")
  ELSE CreateAlerts(s, env, CollectorEvaluate(x.v, la, lw, hw, ha), qty, x.v)

\* MqttDataCollector.check_temperature_humidity_thresholds
CheckTemperatureHumidityThresholds(s, env, temperature, humidity) ==
  LET th == CollectorThresholds
      tchecked == CollectorCheck(s, env, temperature, "Temperature",
                     th.temp_alarm_low, th.temp_warning_low,
                     th.temp_warning_high, th.temp_alarm_high)
  IN CollectorCheck(tchecked, env, humidity, "Humidity",
                    th.humidity_alarm_low, th.humidity_warning_low,
                    th.humidity_warning_high, th.humidity_alarm_high)

\* the if/elif of MqttDataCollector.process_message
CollectorBranch(p) ==
  LET dt == DeviceTypeOf(p) IN
  IF Contains(dt, "DHT_Sensor") \/ HasKey(p.temperature) \/ HasKey(p.humidity)
    THEN "sensor"
  ELSE IF Contains(dt, "Actuator") \/ Contains(dt, "button") \/ Contains(dt, "relay")
    THEN "actuator"
  ELSE "other"

\* MqttDataCollector.process_message
ProcessMessage(s, env, p) ==
  LET branch == CollectorBranch(p)
      handled ==
        IF p.json # "object" THEN Raise(s, "AttributeError")
        ELSE IF ~IsString(p.device_type) THEN Raise(s, "TypeError")
        ELSE CASE branch = "sensor" ->
                    CheckTemperatureHumidityThresholds(
                      InsertSensorData(s, env.f, Get(p.temperature), Get(p.humidity)),
                      env, Get(p.temperature), Get(p.humidity))
               [] branch = "actuator" -> InsertActuatorData(s, env.f, DeviceTypeOf(p), p.state)
               [] OTHER -> s
  IN IF handled.exc # "none" THEN handled ELSE InsertSystemLog(handled, env.f)

\* MqttDataCollector.process_text_message
ProcessTextMessage(s, env) == InsertSystemLog(s, env.f)

\* MqttDataCollector.on_message
CollectorOnMessage(s, env, raw) ==
  LET body == IF raw.enc = "badutf8" THEN Raise(s, "UnicodeDecodeError")
              ELSE IF raw.enc = "text" THEN Raise(s, "JSONDecodeError")
              ELSE ProcessMessage([s EXCEPT !.message_count = @ + 1], env, raw.payload)
  IN IF body.exc = "none" THEN body
     ELSE IF Catches("JSONDecodeError", body.exc)
       THEN LET retry == ProcessTextMessage(
                           [Caught(body) EXCEPT !.message_count = @ + 1], env)
            IN IF retry.exc # "none" /\ Catches("Exception", retry.exc)
                 THEN Caught(retry) ELSE retry
     ELSE IF Catches("Exception", body.exc) THEN Caught(body)
     ELSE body

(***************************************************************************)
(* DataManagerApp.update_thresholds                                        *)
(***************************************************************************)
\* the order in which update_thresholds converts and assigns the fields
ThresholdFields ==
  <<"temp_alarm_low", "temp_warning_low", "temp_warning_high", "temp_alarm_high",
    "humidity_alarm_low", "humidity_warning_low", "humidity_warning_high",
    "humidity_alarm_high">>

\* the texts of the eight line edits; StrV is a text float() rejects
Form(tla, tlw, thw, tha, hla, hlw, hhw, hha) ==
  [temp_alarm_low |-> tla, temp_warning_low |-> tlw,
   temp_warning_high |-> thw, temp_alarm_high |-> tha,
   humidity_alarm_low |-> hla, humidity_warning_low |-> hlw,
   humidity_warning_high |-> hhw, humidity_alarm_high |-> hha]

\* a valid form, a form whose third text is not a number, and a form of
\* numbers whose low warning lies above the high warning
ThresholdForms ==
  {Form(Num(14), Num(17), Num(24), Num(30), Num(25), Num(35), Num(70), Num(85)),
   Form(Num(15), Num(18), StrV, Num(32), Num(25), Num(35), Num(70), Num(85)),
   Form(Num(14), Num(25), Num(17), Num(30), Num(25), Num(35), Num(70), Num(85))}

\* assignments run one after the other until a float() raises ValueError
RECURSIVE AssignThresholds(_, _, _)
AssignThresholds(th, form, i) ==
  IF i > Len(ThresholdFields) THEN th
  ELSE LET fld == ThresholdFields[i] IN
       IF ~IsNum(form[fld]) THEN th
       ELSE AssignThresholds([th EXCEPT ![fld] = form[fld].v], form, i + 1)

(***************************************************************************)
(* State                                                                   *)
(***************************************************************************)
VARIABLES
  program,              \* which of the two programs this process runs
  is_active,            \* DataManagerApp.is_active
  mqtt_client,          \* DataManagerApp.mqtt_client is not None
  connected,            \* DataManagerMQTT.connected of mqtt_client
  loop_running,         \* the network thread of mqtt_client runs (loop_start)
  gui_pc,               \* position of the GUI thread inside toggle_connection
  thr,                  \* the eight threshold fields of DataManagerApp
  current_temperature,  \* DataManagerApp.current_temperature
  current_occupancy,    \* DataManagerApp.current_occupancy
  last_ac_command,      \* DataManagerApp.last_ac_command
  data_count,           \* DataManagerApp.data_count
  warning_count,        \* DataManagerApp.warning_count
  alarm_count,          \* DataManagerApp.alarm_count
  c_running,            \* the network thread of MqttDataCollector runs
  c_connected,          \* MqttDataCollector.connected
  message_count,        \* MqttDataCollector.message_count
  issued,               \* the commands send_ac_control_command was called with
  delivered,            \* on_message callbacks run so far
  last,                 \* the callback that has just returned: its input and
                        \* effects; NoCallback after any other step
  db_lock,              \* DatabaseManager._lock is held
  db_pc,                \* position of each thread inside a DatabaseManager method
  db_op,                \* the method each thread is in
  db_rows,              \* committed rows of the table each insert writes
  db_uncommitted,       \* rows written through a thread's connection, not committed
  db_done,              \* calls of each insert that returned success
  db_calls              \* DatabaseManager calls started so far

appVars == <<is_active, mqtt_client, connected, loop_running, gui_pc, thr,
             current_temperature, current_occupancy, last_ac_command,
             data_count, warning_count, alarm_count>>

colVars == <<c_running, c_connected, message_count>>

dbVars == <<db_lock, db_pc, db_op, db_rows, db_uncommitted, db_done, db_calls>>

vars == <<program, appVars, colVars, issued, delivered, last, dbVars>>

\* the threads of one process that share its DatabaseManager: the network
\* thread of the bus client and the GUI thread
Callers == {"network", "gui"}

\* the methods of DatabaseManager that take _lock: the four inserts, the two
\* queries and acknowledge_alert
DbMethods == DbOps \cup {"get_recent_sensor_data", "get_recent_alerts", "acknowledge_alert"}

NoCallback ==
  [coord |-> "none", raw |-> [enc |-> "text", payload |-> NoPayload],
   branch |-> "none", f |-> {}, trace |-> <<>>, caught |-> "none",
   result |-> "returned"]

Programs == {"data_manager", "data_collector"}

\* DataManagerApp.__init__, MqttDataCollector.__init__, empty tables; a
\* process is either data_manager.py or data_collector.py
Init ==
  /\ program \in Programs
  /\ is_active = FALSE
  /\ mqtt_client = FALSE
  /\ connected = FALSE
  /\ loop_running = FALSE
  /\ gui_pc = "idle"
  /\ thr = DefaultThresholds
  /\ current_temperature = NoneV
  /\ current_occupancy = FALSE
  /\ last_ac_command = "None"
  /\ data_count = 0
  /\ warning_count = 0
  /\ alarm_count = 0
  /\ c_running = FALSE
  /\ c_connected = FALSE
  /\ message_count = 0
  /\ issued = <<>>
  /\ delivered = 0
  /\ last = NoCallback
  /\ db_lock = FALSE
  /\ db_pc = [c \in Callers |-> "idle"]
  /\ db_op = [c \in Callers |-> "none"]
  /\ db_rows = [op \in DbOps |-> 0]
  /\ db_uncommitted = [c \in Callers |-> 0]
  /\ db_done = [op \in DbOps |-> 0]
  /\ db_calls = 0

(***************************************************************************)
(* Actions of DataManagerApp / DataManagerMQTT                             *)
(***************************************************************************)
\* toggle_connection, branch `not self.is_active`: a new DataManagerMQTT
\* replaces mqtt_client; connect_to_broker returns True (loop started) or
\* False (exception caught)
ToggleConnectionStart ==
  /\ program = "data_manager"
  /\ gui_pc = "idle"
  /\ ~is_active
  /\ \E ok \in BOOLEAN :
       /\ mqtt_client' = TRUE
       /\ connected' = FALSE
       /\ loop_running' = ok
       /\ is_active' = ok
  /\ UNCHANGED <<gui_pc, thr, current_temperature, current_occupancy, last_ac_command,
                 data_count, warning_count, alarm_count>>
  /\ last' = NoCallback
  /\ UNCHANGED <<program, dbVars, colVars, issued, delivered>>

\* toggle_connection, else branch, first statement: is_active = False.  The
\* network thread still runs until disconnect() has joined it.
ToggleConnectionStop ==
  /\ program = "data_manager"
  /\ gui_pc = "idle"
  /\ is_active
  /\ is_active' = FALSE
  /\ gui_pc' = "disconnect"
  /\ UNCHANGED <<mqtt_client, connected, loop_running, thr, current_temperature,
                 current_occupancy, last_ac_command, data_count, warning_count,
                 alarm_count>>
  /\ last' = NoCallback
  /\ UNCHANGED <<program, dbVars, colVars, issued, delivered>>

\* disconnect() without the join of loop_stop: the network thread outlives
\* the call
Disconnect_NoJoin ==
  /\ program = "data_manager"
  /\ gui_pc = "disconnect"
  /\ gui_pc' = "idle"
  /\ UNCHANGED <<is_active, mqtt_client, connected, loop_running, thr,
                 current_temperature, current_occupancy, last_ac_command,
                 data_count, warning_count, alarm_count>>
  /\ last' = NoCallback
  /\ UNCHANGED <<program, dbVars, colVars, issued, delivered>>

\* DataManagerMQTT.disconnect called by toggle_connection: loop_stop joins
\* the network thread
Disconnect ==
  /\ program = "data_manager"
  /\ gui_pc = "disconnect"
  /\ gui_pc' = "idle"
  /\ loop_running' = IF mqtt_client THEN FALSE ELSE loop_running
  /\ UNCHANGED <<is_active, mqtt_client, connected, thr, current_temperature,
                 current_occupancy, last_ac_command, data_count, warning_count,
                 alarm_count>>
  /\ last' = NoCallback
  /\ UNCHANGED <<program, dbVars, colVars, issued, delivered>>

\* DataManagerMQTT.on_connect, on the network thread
OnConnect ==
  /\ program = "data_manager"
  /\ loop_running
  /\ ~connected
  /\ \E rc \in {0, 5} : connected' = IF rc = 0 THEN TRUE ELSE connected
  /\ UNCHANGED <<is_active, mqtt_client, loop_running, gui_pc, thr, current_temperature,
                 current_occupancy, last_ac_command, data_count, warning_count,
                 alarm_count>>
  /\ last' = NoCallback
  /\ UNCHANGED <<program, dbVars, colVars, issued, delivered>>

\* DataManagerMQTT.on_disconnect, on the network thread
OnDisconnect ==
  /\ program = "data_manager"
  /\ loop_running
  /\ connected
  /\ connected' = FALSE
  /\ UNCHANGED <<is_active, mqtt_client, loop_running, gui_pc, thr, current_temperature,
                 current_occupancy, last_ac_command, data_count, warning_count,
                 alarm_count>>
  /\ last' = NoCallback
  /\ UNCHANGED <<program, dbVars, colVars, issued, delivered>>

\* the record the handler operators of DataManagerApp work on
AppRecord ==
  [current_temperature |-> current_temperature,
   current_occupancy |-> current_occupancy,
   last_ac_command |-> last_ac_command,
   data_count |-> data_count, warning_count |-> warning_count,
   alarm_count |-> alarm_count, issued |-> issued,
   trace |-> <<>>, exc |-> "none", caught |-> "none"]

\* what handle_message reads of the application while it runs: thr are the
\* threshold fields as check_and_control_ac reads them, thr_alerts the same
\* fields as the alert comparisons read them later in the same call
AppEnv(f) ==
  [is_active |-> is_active, mqtt_client |-> mqtt_client, connected |-> connected,
   thr |-> thr, thr_alerts |-> thr, f |-> f]

\* one message delivered to DataManagerMQTT.on_message on the network
\* thread (subscribed in on_connect, so only while connected); an exception
\* that leaves the callback ends the network thread
OnMessage ==
  /\ program = "data_manager"
  /\ loop_running
  /\ connected
  /\ delivered < MaxMsgs
  /\ \E raw \in RawMessages, f \in FailSets :
       /\ \E r \in {AppOnMessage(AppRecord, AppEnv(f), raw)} :
            /\ current_temperature' = r.current_temperature
            /\ current_occupancy' = r.current_occupancy
            /\ last_ac_command' = r.last_ac_command
            /\ data_count' = r.data_count
            /\ warning_count' = r.warning_count
            /\ alarm_count' = r.alarm_count
            /\ issued' = r.issued
            /\ loop_running' = (r.exc = "none")
            /\ last' = [coord |-> "app", raw |-> raw,
                        branch |-> IF raw.enc = "json" THEN AppBranch(raw.payload) ELSE "none",
                        f |-> f, trace |-> r.trace, caught |-> r.caught,
                        result |-> IF r.exc = "none" THEN "returned" ELSE "raised"]
  /\ delivered' = delivered + 1
  /\ UNCHANGED <<is_active, mqtt_client, connected, gui_pc, thr>>
  /\ UNCHANGED <<program, dbVars, colVars>>

\* one sensor message handled on the network thread while the GUI thread runs
\* update_thresholds: neither method takes a lock, so the assignments of
\* update_thresholds can land after check_and_control_ac has read the
\* thresholds and before the alert comparisons read them
OnMessageAcrossUpdate ==
  /\ program = "data_manager"
  /\ loop_running
  /\ connected
  /\ delivered < MaxMsgs
  /\ gui_pc = "idle"
  /\ \E raw \in {m \in RawMessages : m.enc = "json" /\ AppBranch(m.payload) = "sensor"},
        form \in ThresholdForms :
       /\ \E r \in {AppOnMessage(AppRecord,
                                 [AppEnv({}) EXCEPT !.thr_alerts = AssignThresholds(thr, form, 1)],
                                 raw)} :
            /\ current_temperature' = r.current_temperature
            /\ current_occupancy' = r.current_occupancy
            /\ last_ac_command' = r.last_ac_command
            /\ data_count' = r.data_count
            /\ warning_count' = r.warning_count
            /\ alarm_count' = r.alarm_count
            /\ issued' = r.issued
            /\ loop_running' = (r.exc = "none")
            /\ last' = [coord |-> "app", raw |-> raw, branch |-> "sensor",
                        f |-> {}, trace |-> r.trace, caught |-> r.caught,
                        result |-> IF r.exc = "none" THEN "returned" ELSE "raised"]
       /\ thr' = AssignThresholds(thr, form, 1)
  /\ delivered' = delivered + 1
  /\ UNCHANGED <<is_active, mqtt_client, connected, gui_pc>>
  /\ UNCHANGED <<program, dbVars, colVars>>

\* DataManagerApp.update_thresholds, on the GUI thread
UpdateThresholds ==
  /\ program = "data_manager"
  /\ gui_pc = "idle"
  /\ \E form \in ThresholdForms : thr' = AssignThresholds(thr, form, 1)
  /\ UNCHANGED <<is_active, mqtt_client, connected, loop_running, gui_pc,
                 current_temperature, current_occupancy, last_ac_command,
                 data_count, warning_count, alarm_count>>
  /\ last' = NoCallback
  /\ UNCHANGED <<program, dbVars, colVars, issued, delivered>>

(***************************************************************************)
(* Actions of MqttDataCollector / DataManagerGUI                           *)
(***************************************************************************)
\* DataManagerGUI.toggle_collection: connect_to_broker starts the network
\* thread, disconnect stops it
ToggleCollection ==
  /\ program = "data_collector"
  /\ \/ /\ ~c_running
        /\ c_running' = TRUE
        /\ c_connected' = c_connected
     \/ /\ c_running
        /\ c_running' = FALSE
        /\ c_connected' = c_connected
  /\ UNCHANGED message_count
  /\ last' = NoCallback
  /\ UNCHANGED <<program, dbVars, appVars, issued, delivered>>

\* MqttDataCollector.on_connect / on_disconnect, on the network thread
CollectorOnConnect ==
  /\ program = "data_collector"
  /\ c_running
  /\ ~c_connected
  /\ c_connected' = TRUE
  /\ UNCHANGED <<c_running, message_count>>
  /\ last' = NoCallback
  /\ UNCHANGED <<program, dbVars, appVars, issued, delivered>>

CollectorOnDisconnect ==
  /\ program = "data_collector"
  /\ c_running
  /\ c_connected
  /\ c_connected' = FALSE
  /\ UNCHANGED <<c_running, message_count>>
  /\ last' = NoCallback
  /\ UNCHANGED <<program, dbVars, appVars, issued, delivered>>

CollectorRecord ==
  [message_count |-> message_count, trace |-> <<>>, exc |-> "none", caught |-> "none"]

\* one message delivered to MqttDataCollector.on_message
CollectorMessage ==
  /\ program = "data_collector"
  /\ c_running
  /\ c_connected
  /\ delivered < MaxMsgs
  /\ \E raw \in RawMessages, f \in FailSets :
       /\ \E r \in {CollectorOnMessage(CollectorRecord, [connected |-> c_connected, f |-> f], raw)} :
            /\ message_count' = r.message_count
            /\ c_running' = (r.exc = "none")
            /\ last' = [coord |-> "collector", raw |-> raw,
                        branch |-> IF raw.enc = "json" THEN CollectorBranch(raw.payload) ELSE "none",
                        f |-> f, trace |-> r.trace, caught |-> r.caught,
                        result |-> IF r.exc = "none" THEN "returned" ELSE "raised"]
  /\ delivered' = delivered + 1
  /\ UNCHANGED c_connected
  /\ UNCHANGED <<program, dbVars, appVars, issued>>

Next ==
  \/ ToggleConnectionStart
  \/ ToggleConnectionStop
  \/ Disconnect
  \/ OnConnect
  \/ OnDisconnect
  \/ OnMessage
  \/ OnMessageAcrossUpdate
  \/ UpdateThresholds
  \/ ToggleCollection
  \/ CollectorOnConnect
  \/ CollectorOnDisconnect
  \/ CollectorMessage

Spec == Init /\ [][Next]_vars

(***************************************************************************)
(* DatabaseManager under concurrent callers (database/db_manager.py)       *)
(* Every method has the shape                                              *)
(*   try:                                                                  *)
(*       with self._lock:                                                  *)
(*           conn = self.get_connection(); cursor.execute(...)             *)
(*           conn.commit(); conn.close()                                   *)
(*       return True                                                       *)
(*   except Exception: return False                                        *)
(* db_pc follows one thread through it: "idle" outside, "try" waiting for  *)
(* the lock, "locked" with the lock before execute, "executed" before      *)
(* commit (fetchall for a query), "committed" before close and the end of  *)
(* the with block.                                                         *)
(***************************************************************************)
InCritical(c) == db_pc[c] \in {"locked", "executed", "committed"}

\* a thread enters a method of DatabaseManager
DbCall(c) ==
  /\ db_pc[c] = "idle"
  /\ db_calls < MaxCalls
  /\ \E op \in DbMethods : db_op' = [db_op EXCEPT ![c] = op]
  /\ db_pc' = [db_pc EXCEPT ![c] = "try"]
  /\ db_calls' = db_calls + 1
  /\ UNCHANGED <<db_lock, db_rows, db_uncommitted, db_done>>
  /\ UNCHANGED <<program, appVars, colVars, issued, delivered, last>>

\* an acquire that does not wait for the lock to be free
DbAcquire_NoWait(c) ==
  /\ db_pc[c] = "try"
  /\ db_lock' = TRUE
  /\ db_pc' = [db_pc EXCEPT ![c] = "locked"]
  /\ UNCHANGED <<db_op, db_rows, db_uncommitted, db_done, db_calls>>
  /\ UNCHANGED <<program, appVars, colVars, issued, delivered, last>>

\* `with self._lock:` acquires the lock once it is free
DbAcquire(c) ==
  /\ db_pc[c] = "try"
  /\ ~db_lock
  /\ db_lock' = TRUE
  /\ db_pc' = [db_pc EXCEPT ![c] = "locked"]
  /\ UNCHANGED <<db_op, db_rows, db_uncommitted, db_done, db_calls>>
  /\ UNCHANGED <<program, appVars, colVars, issued, delivered, last>>

\* get_connection and cursor.execute: the one INSERT of an insert method
\* writes its whole row into the transaction of the thread's own connection
DbExecute(c) ==
  /\ db_pc[c] = "locked"
  /\ db_pc' = [db_pc EXCEPT ![c] = "executed"]
  /\ db_uncommitted' = [db_uncommitted EXCEPT ![c] = IF db_op[c] \in DbOps THEN 1 ELSE 0]
  /\ UNCHANGED <<db_lock, db_op, db_rows, db_done, db_calls>>
  /\ UNCHANGED <<program, appVars, colVars, issued, delivered, last>>

\* conn.commit() (cursor.fetchall() in a query)
DbCommit(c) ==
  /\ db_pc[c] = "executed"
  /\ db_pc' = [db_pc EXCEPT ![c] = "committed"]
  /\ db_rows' = IF db_op[c] \in DbOps
                  THEN [db_rows EXCEPT ![db_op[c]] = @ + db_uncommitted[c]]
                  ELSE db_rows
  /\ db_uncommitted' = [db_uncommitted EXCEPT ![c] = 0]
  /\ UNCHANGED <<db_lock, db_op, db_done, db_calls>>
  /\ UNCHANGED <<program, appVars, colVars, issued, delivered, last>>

\* conn.close(), the end of the with block releases the lock, return True
\* (the row id for insert_alert, the rows for a query)
DbReturn(c) ==
  /\ db_pc[c] = "committed"
  /\ db_lock' = FALSE
  /\ db_pc' = [db_pc EXCEPT ![c] = "idle"]
  /\ db_done' = IF db_op[c] \in DbOps THEN [db_done EXCEPT ![db_op[c]] = @ + 1]
                  ELSE db_done
  /\ UNCHANGED <<db_op, db_rows, db_uncommitted, db_calls>>
  /\ UNCHANGED <<program, appVars, colVars, issued, delivered, last>>

\* sqlite3 raises in connect, execute or commit: the exception leaves the
\* with block, which releases the lock; the connection is dropped with its
\* transaction open, so nothing of it is committed; except returns False
DbFail(c) ==
  /\ db_pc[c] \in {"locked", "executed"}
  /\ db_lock' = FALSE
  /\ db_pc' = [db_pc EXCEPT ![c] = "idle"]
  /\ db_uncommitted' = [db_uncommitted EXCEPT ![c] = 0]
  /\ UNCHANGED <<db_op, db_rows, db_done, db_calls>>
  /\ UNCHANGED <<program, appVars, colVars, issued, delivered, last>>

NextDb ==
  \E c \in Callers :
    \/ DbCall(c)
    \/ DbAcquire(c)
    \/ DbExecute(c)
    \/ DbCommit(c)
    \/ DbReturn(c)
    \/ DbFail(c)

\* a thread that can take a step of its method eventually runs
SpecDb ==
  /\ Init
  /\ [][NextDb]_vars
  /\ \A c \in Callers :
       /\ WF_vars(DbAcquire(c))
       /\ WF_vars(DbExecute(c))
       /\ WF_vars(DbCommit(c))
       /\ WF_vars(DbReturn(c))

(***************************************************************************)
(* Vocabulary of the properties                                            *)
(***************************************************************************)
\* the effects of kind op in the trace of a callback, in program order
Events(tr, op) ==
  LET IsOp(e) == e.op = op IN SelectSeq(tr, IsOp)

\* the inserts of kind op that committed a row
Committed(tr, op) ==
  LET IsRow(e) == e.op = op /\ e.ok IN SelectSeq(tr, IsRow)

\* the messages that reached the bus under the TOPICS key `key`
Published(tr, key) ==
  LET IsSent(e) == e.op = "publish" /\ e.ok /\ e.qty = key IN SelectSeq(tr, IsSent)

\* the alerts raised for one quantity
AlertsFor(tr, qty) ==
  LET IsAlert(e) == e.op = "insert_alert" /\ e.qty = qty IN SelectSeq(tr, IsAlert)

\* the callback l handled a JSON object
HandledObject(l) ==
  /\ l.coord # "none"
  /\ l.raw.enc = "json"
  /\ l.raw.payload.json = "object"
  /\ IsString(l.raw.payload.device_type)

\* the callback l of DataManagerApp called check_and_control_ac
CheckRan(l) ==
  /\ l.coord = "app"
  /\ HandledObject(l)
  /\ \/ l.branch = "occupancy"
     \/ l.branch = "sensor" /\ Get(l.raw.payload.temperature).tag # "none"

\* the client of DataManagerApp is collecting and connected
Collecting == is_active /\ mqtt_client /\ connected

\* the thresholds the callback l compared its readings with
ThresholdsOf(l) == IF l.coord = "app" THEN thr ELSE CollectorThresholds

Quantities == {"Temperature", "Humidity"}

ReadingOf(l, qty) ==
  IF qty = "Temperature" THEN Get(l.raw.payload.temperature)
  ELSE Get(l.raw.payload.humidity)

LowAlarm(th, qty) ==
  IF qty = "Temperature" THEN th.temp_alarm_low ELSE th.humidity_alarm_low

HighAlarm(th, qty) ==
  IF qty = "Temperature" THEN th.temp_alarm_high ELSE th.humidity_alarm_high

(***************************************************************************)
(* C1                                                                      *)
(***************************************************************************)
\* C1: while the office is occupied, a temperature reading inside the band
\* [temp_warning_low, temp_warning_high] issues no control command and
\* leaves last_ac_command as it was.
C1_InBandKeepsCommand ==
  [][(/\ last'.coord = "app"
      /\ HandledObject(last')
      /\ last'.branch = "sensor"
      /\ IsNum(last'.raw.payload.temperature)
      /\ last'.raw.payload.temperature.v >= thr.temp_warning_low
      /\ last'.raw.payload.temperature.v <= thr.temp_warning_high
      /\ current_occupancy)
     => (issued' = issued /\ last_ac_command' = last_ac_command)]_vars

(***************************************************************************)
(* C2                                                                      *)
(***************************************************************************)
\* C2: a callback issues at most one control command, only one whose
\* direction differs from last_ac_command, and last_ac_command then holds
\* that direction; no other step changes last_ac_command, and no two
\* commands issued one after the other have the same direction.
C2_EdgeTriggered ==
  [][/\ \/ /\ issued' = issued
           /\ last_ac_command' = last_ac_command
        \/ \E turn_on \in BOOLEAN :
             /\ last'.coord = "app"
             /\ issued' = Append(issued, IF turn_on THEN "turn_on" ELSE "turn_off")
             /\ B2S(turn_on) # last_ac_command
             /\ last_ac_command' = B2S(turn_on)
     /\ \A i \in 1..(Len(issued') - 1) : issued'[i] # issued'[i + 1]]_vars

\* a second command has just been issued
C2_Witness ==
  /\ last.coord = "app"
  /\ Len(issued) >= 2
  /\ Events(last.trace, "send_ac_control_command") # <<>>

C4_OccupancyBeforeActuator ==
  (/\ last.coord = "app"
   /\ HandledObject(last)
   /\ Contains(DeviceTypeOf(last.raw.payload), "Occupancy_Sensor")
   /\ ~HasKey(last.raw.payload.temperature)
   /\ ~HasKey(last.raw.payload.humidity))
  => /\ last.branch = "occupancy"
     /\ current_occupancy = (last.raw.payload.state = "ON"
                             \/ last.raw.payload.occupancy = "Occupied")
     /\ Events(last.trace, "insert_actuator_data") = <<>>

(***************************************************************************)
(* C5                                                                      *)
(***************************************************************************)
\* C5: a report of the AC controller (device_type contains AC_Controller,
\* no temperature, no humidity) issues and publishes no control command and
\* leaves current_temperature, current_occupancy and last_ac_command as
\* they were.
C5_ControllerReportIsInert ==
  [][(/\ last'.coord = "app"
      /\ HandledObject(last')
      /\ Contains(DeviceTypeOf(last'.raw.payload), "AC_Controller")
      /\ ~HasKey(last'.raw.payload.temperature)
      /\ ~HasKey(last'.raw.payload.humidity))
     => /\ issued' = issued
        /\ Published(last'.trace, "ac_controller_control") = <<>>
        /\ UNCHANGED <<current_temperature, current_occupancy, last_ac_command>>]_vars

\* the controller reports ON while the last command was turn_off, and the
\* office is occupied and hot: the policy, had it run, would have sent
C5_Witness ==
  /\ last.coord = "app"
  /\ HandledObject(last)
  /\ Contains(DeviceTypeOf(last.raw.payload), "AC_Controller")
  /\ last.branch = "controller"
  /\ Collecting
  /\ last_ac_command = "False"
  /\ current_occupancy
  /\ IsNum(current_temperature)
  /\ current_temperature.v > thr.temp_warning_high

(***************************************************************************)
(* C6                                                                      *)
(***************************************************************************)
\* C6: while collecting and connected, with nothing failing, a sensor
\* message whose temperature lies strictly between temp_warning_high and
\* temp_alarm_high and whose humidity lies strictly inside its warning band
\* stores one sensor row, persists one warning for Temperature and
\* publishes it under 'warnings', raises nothing for Humidity and, when the
\* office is occupied and last_ac_command is not True, publishes exactly
\* one turn_on on the control topic.
C6_SensorPath ==
  [][(/\ last'.coord = "app"
      /\ HandledObject(last')
      /\ last'.branch = "sensor"
      /\ last'.f = {}
      /\ thr' = thr
      /\ Collecting
      /\ IsNum(last'.raw.payload.temperature)
      /\ last'.raw.payload.temperature.v > thr.temp_warning_high
      /\ last'.raw.payload.temperature.v < thr.temp_alarm_high
      /\ IsNum(last'.raw.payload.humidity)
      /\ last'.raw.payload.humidity.v > thr.humidity_warning_low
      /\ last'.raw.payload.humidity.v < thr.humidity_warning_high)
     => /\ Len(Committed(last'.trace, "insert_sensor_data")) = 1
        /\ Len(Committed(last'.trace, "insert_alert")) = 1
        /\ Len(AlertsFor(last'.trace, "Temperature")) = 1
        /\ AlertsFor(last'.trace, "Temperature")[1].sev = "warning"
        /\ Len(Published(last'.trace, "warnings")) = 1
        /\ Published(last'.trace, "alarms") = <<>>
        /\ AlertsFor(last'.trace, "Humidity") = <<>>
        /\ (current_occupancy /\ last_ac_command # "True")
           => /\ Len(Published(last'.trace, "ac_controller_control")) = 1
              /\ Published(last'.trace, "ac_controller_control")[1].sev = "turn_on"]_vars

(***************************************************************************)
(* C7                                                                      *)
(***************************************************************************)
\* C7: with nothing failing, a payload of text that is not JSON leaves
\* exactly one system-log row and no sensor row, actuator row, alert or
\* published message.
C7_UndecodableIsLogged ==
  (last.coord # "none" /\ last.raw.enc = "text" /\ last.f = {})
  => /\ Len(Committed(last.trace, "insert_system_log")) = 1
     /\ Events(last.trace, "insert_sensor_data") = <<>>
     /\ Events(last.trace, "insert_actuator_data") = <<>>
     /\ Events(last.trace, "insert_alert") = <<>>
     /\ Events(last.trace, "publish") = <<>>

(***************************************************************************)
(* C8                                                                      *)
(***************************************************************************)
Levels == 0..MaxLevel

\* the alerts in `alerts` are at most one, and an alarm when v is at or
\* beyond an alarm bound
AlarmFirst(alerts, v, la, ha) ==
  /\ Len(alerts) <= 1
  /\ (v >= ha \/ v <= la)
     => /\ Len(alerts) = 1
        /\ alerts[1].sev \in {"alarm", "ALARM"}

\* both evaluators on every ordered threshold set and value of Levels
EvaluatorsAlarmFirst ==
  \A la, lw, hw, ha, v \in Levels :
    Ordered(la, lw, hw, ha)
    => /\ AlarmFirst(AppEvaluate(v, la, lw, hw, ha), v, la, ha)
       /\ AlarmFirst(CollectorEvaluate(v, la, lw, hw, ha), v, la, ha)

\* C8: under ordered thresholds a sensor message raises at most one alert
\* for each quantity; when the callback ran without an exception and the
\* value v of the quantity has v >= high alarm or v <= low alarm, it raises
\* exactly one, of severity alarm.  The two evaluators do so on every
\* ordered threshold set and every value of Levels.
C8_OneAlertAlarmFirst ==
  /\ EvaluatorsAlarmFirst
  /\ (/\ HandledObject(last)
      /\ last.branch = "sensor"
      /\ OrderedThresholds(ThresholdsOf(last)))
     => \A qty \in Quantities :
          LET alerts == AlertsFor(last.trace, qty)
              v == ReadingOf(last, qty)
              th == ThresholdsOf(last)
          IN /\ Len(alerts) <= 1
             /\ (/\ last.caught = "none"
                 /\ IsNum(v)
                 /\ (v.v >= HighAlarm(th, qty) \/ v.v <= LowAlarm(th, qty)))
                => /\ Len(alerts) = 1
                   /\ alerts[1].sev \in {"alarm", "ALARM"}

\* a reading at the low temperature alarm and the low humidity alarm of the
\* DataManagerApp raised one alarm for each
C8_Witness ==
  /\ last.coord = "app"
  /\ HandledObject(last)
  /\ last.branch = "sensor"
  /\ last.caught = "none"
  /\ IsNum(last.raw.payload.temperature)
  /\ last.raw.payload.temperature.v <= thr.temp_alarm_low
  /\ last.raw.payload.temperature.v <= thr.temp_warning_low
  /\ Len(AlertsFor(last.trace, "Temperature")) = 1
  /\ AlertsFor(last.trace, "Temperature")[1].sev = "alarm"
  /\ Len(AlertsFor(last.trace, "Humidity")) = 1

(***************************************************************************)
(* C9                                                                      *)
(***************************************************************************)
\* C9: with nothing failing in the store or on the bus, every message that
\* decodes to a JSON object leaves exactly one system-log row, also when
\* the handler of its branch fails.
C9_DecodedIsLogged ==
  (HandledObject(last) /\ last.f = {})
  => Len(Committed(last.trace, "insert_system_log")) = 1

(***************************************************************************)
(* C10                                                                     *)
(***************************************************************************)
\* C10: no on_message callback lets an exception out, whatever the payload
\* and whatever fails in the store or on the bus; the network thread that
\* delivers the next message keeps running.
C10_CallbackReturns ==
  /\ last.coord # "none" => last.result = "returned"
  /\ last.coord = "app" => loop_running
  /\ last.coord = "collector" => c_running

\* a second message was handled, and it raised inside its handler
C10_Witness ==
  /\ delivered >= 2
  /\ last.coord # "none"
  /\ last.caught \notin {"none", "JSONDecodeError"}
  /\ last.result = "returned"

(***************************************************************************)
(* C11                                                                     *)
(***************************************************************************)
\* the effects of a callback with the outcome of its inserts left out
Steps(tr) ==
  [i \in 1..Len(tr) |-> IF tr[i].op \in DbOps THEN [tr[i] EXCEPT !.ok = TRUE] ELSE tr[i]]

\* the callback l ran while insert_sensor_data or insert_alert failed and
\* nothing else did
InsertFailed(l) ==
  /\ l.coord # "none"
  /\ l.f \in {{"insert_sensor_data"}, {"insert_alert"}}

\* C11: a callback during which insert_sensor_data or insert_alert fails
\* carries out the same steps, in the same order, as the same message
\* handled from the same state with a working store, and leaves the same
\* state; the only difference is the row that was not written.
C11_InsertFailureDoesNotAbort ==
  [][/\ (InsertFailed(last') /\ last'.coord = "app")
        => \E ok \in {AppOnMessage(AppRecord, AppEnv({}), last'.raw)} :
             /\ Steps(last'.trace) = ok.trace
             /\ last'.caught = ok.caught
             /\ current_temperature' = ok.current_temperature
             /\ current_occupancy' = ok.current_occupancy
             /\ last_ac_command' = ok.last_ac_command
             /\ issued' = ok.issued
             /\ data_count' = ok.data_count
             /\ warning_count' = ok.warning_count
             /\ alarm_count' = ok.alarm_count
     /\ (InsertFailed(last') /\ last'.coord = "collector")
        => \E ok \in {CollectorOnMessage(CollectorRecord,
                                         [connected |-> c_connected, f |-> {}],
                                         last'.raw)} :
             /\ Steps(last'.trace) = ok.trace
             /\ last'.caught = ok.caught
             /\ message_count' = ok.message_count]_vars

\* the alert insert failed; the alert was published all the same, after a
\* control command of the same message
C11_Witness ==
  /\ last.coord = "app"
  /\ last.f = {"insert_alert"}
  /\ \E i, j, k \in 1..Len(last.trace) :
       /\ last.trace[i].op = "send_ac_control_command"
       /\ last.trace[j].op = "insert_alert" /\ ~last.trace[j].ok
       /\ last.trace[k].op = "publish" /\ last.trace[k].ok
       /\ j < k

(***************************************************************************)
(* C12                                                                     *)
(***************************************************************************)
\* the thresholds a form of eight numbers stands for
FormValues(form) == [fld \in DOMAIN form |-> form[fld].v]

\* every text of the form is a number
ValidForm(form) == \A fld \in DOMAIN form : IsNum(form[fld])

\* C12: a step changes the thresholds only by replacing all eight with the
\* values of a form whose texts are all numbers; a form with an invalid
\* text leaves every threshold as it was.
C12_ThresholdsReplacedTogether ==
  [][thr' # thr
     => \E form \in ThresholdForms : ValidForm(form) /\ thr' = FormValues(form)]_vars

(***************************************************************************)
(* C13                                                                     *)
(***************************************************************************)
\* C13: in every reachable state the thresholds of each quantity satisfy
\* alarm low < warning low < warning high < alarm high.
C13_ThresholdsOrdered == OrderedThresholds(thr)

(***************************************************************************)
(* C14                                                                     *)
(***************************************************************************)
AlarmSeverities == {"alarm", "ALARM"}

WarningSeverities == {"warning", "WARNING"}

\* C14: the topics of alarms, of warnings and of control commands differ;
\* every message a callback publishes is either the alert it has just
\* stored, sent to the alarms topic when its severity is alarm and to the
\* warnings topic when it is warning, or a control command.
C14_AlertRouting ==
  /\ TOPICS["alarms"] # TOPICS["warnings"]
  /\ \A i \in 1..Len(last.trace) :
       (last.trace[i].op = "publish" /\ last.trace[i].ok)
       => \/ /\ last.trace[i].sev \in {"turn_on", "turn_off"}
             /\ last.trace[i].qty = "ac_controller_control"
          \/ /\ i > 1
             /\ last.trace[i - 1].op = "insert_alert"
             /\ last.trace[i - 1].sev = last.trace[i].sev
             /\ last.trace[i - 1].val = last.trace[i].val
             /\ \/ /\ last.trace[i].sev \in AlarmSeverities
                   /\ TopicOf(last.trace[i].qty) = TOPICS["alarms"]
                \/ /\ last.trace[i].sev \in WarningSeverities
                   /\ TopicOf(last.trace[i].qty) = TOPICS["warnings"]

\* the DataManagerApp has published an alarm for humidity after a warning
\* for temperature
C14_Witness ==
  /\ last.coord = "app"
  /\ \E i, j \in 1..Len(last.trace) :
       /\ i < j
       /\ last.trace[i].op = "publish" /\ last.trace[i].ok
       /\ last.trace[i].sev = "warning" /\ last.trace[i].qty = "warnings"
       /\ last.trace[j].op = "publish" /\ last.trace[j].ok
       /\ last.trace[j].sev = "alarm" /\ last.trace[j].qty = "alarms"

(***************************************************************************)
(* C15                                                                     *)
(***************************************************************************)
\* the alerts a callback decided on: quantity, severity, value, threshold
Decision(tr) == Steps(Events(tr, "insert_alert"))

\* the record of a DataManagerApp that has handled nothing yet
FreshAppRecord ==
  [current_temperature |-> NoneV, current_occupancy |-> FALSE,
   last_ac_command |-> "None", data_count |-> 0, warning_count |-> 0,
   alarm_count |-> 0, issued |-> <<>>, trace |-> <<>>, exc |-> "none",
   caught |-> "none"]

\* the record of a collector that has handled nothing yet
FreshCollectorRecord ==
  [message_count |-> 0, trace |-> <<>>, exc |-> "none", caught |-> "none"]

\* the alerts the coordinator decides on for the message of the callback
\* `last` when it has handled nothing before, under the present thresholds
FreshDecision ==
  IF last.coord = "app"
    THEN Decision(AppOnMessage(FreshAppRecord, AppEnv(last.f), last.raw).trace)
    ELSE Decision(CollectorOnMessage(FreshCollectorRecord,
                                     [connected |-> c_connected, f |-> last.f],
                                     last.raw).trace)

\* the callback l handled a sensor message while nothing failed
SensorCallback(l) ==
  /\ HandledObject(l)
  /\ l.branch = "sensor"
  /\ l.f = {}

\* C15: a sensor message persists one sensor row each time it is handled,
\* and the alerts decided for it are those a coordinator that has handled
\* nothing yet decides under the same thresholds, whatever was handled
\* before; the same message handled twice in a row under the same
\* thresholds persists two rows and gets the same decision twice.
C15_EvaluatorStateless ==
  /\ [](SensorCallback(last)
        => /\ Len(Committed(last.trace, "insert_sensor_data")) = 1
           /\ Decision(last.trace) = FreshDecision)
  /\ [][(/\ SensorCallback(last)
          /\ SensorCallback(last')
          /\ last'.coord = last.coord
          /\ last'.raw = last.raw
          /\ thr' = thr)
         => /\ Decision(last'.trace) = Decision(last.trace)
            /\ last.coord = "app" => data_count' = data_count + 1]_vars

\* a third message, a reading that raises an alarm, was handled after the
\* control state and the counters had changed
C15_Witness ==
  /\ SensorCallback(last)
  /\ last.coord = "app"
  /\ delivered = MaxMsgs
  /\ data_count >= 2
  /\ alarm_count >= 2
  /\ current_occupancy
  /\ Len(Decision(last.trace)) >= 1
  /\ Decision(last.trace)[1].sev = "alarm"

(***************************************************************************)
(* C16                                                                     *)
(***************************************************************************)
LowWarning(th, qty) ==
  IF qty = "Temperature" THEN th.temp_warning_low ELSE th.humidity_warning_low

HighWarning(th, qty) ==
  IF qty = "Temperature" THEN th.temp_warning_high ELSE th.humidity_warning_high

\* severity written the way the four-branch algorithm writes it
Severity(sev) == IF sev \in AlarmSeverities THEN "ALARM" ELSE "WARNING"

\* the (severity, threshold) pairs of a sequence of alerts
Pairs(alerts) == [i \in 1..Len(alerts) |-> <<Severity(alerts[i].sev), alerts[i].thr>>]

\* the algorithm the property compares with: high alarm, high warning, low
\* alarm, low warning, inclusive comparisons, first match wins
FourBranch(v, la, lw, hw, ha) ==
  IF v >= ha THEN <<<<"ALARM", ha>>>>
  ELSE IF v >= hw THEN <<<<"WARNING", hw>>>>
  ELSE IF v <= la THEN <<<<"ALARM", la>>>>
  ELSE IF v <= lw THEN <<<<"WARNING", lw>>>>
  ELSE <<>>

\* both evaluators agree with FourBranch on every ordered threshold set and
\* value of Levels
EvaluatorsFourBranch ==
  \A la, lw, hw, ha, v \in Levels :
    Ordered(la, lw, hw, ha)
    => /\ Pairs(AppEvaluate(v, la, lw, hw, ha)) = FourBranch(v, la, lw, hw, ha)
       /\ Pairs(CollectorEvaluate(v, la, lw, hw, ha)) = FourBranch(v, la, lw, hw, ha)

\* C16: on every ordered threshold set and value of Levels the evaluators
\* of both coordinators return what the four-branch algorithm returns, and
\* under ordered thresholds a sensor callback that ran without an exception
\* raises for each quantity the alert (severity and threshold) of the
\* four-branch algorithm on the value it read.
C16_FourBranchDecision ==
  /\ EvaluatorsFourBranch
  /\ (/\ HandledObject(last)
      /\ last.branch = "sensor"
      /\ last.caught = "none"
      /\ OrderedThresholds(ThresholdsOf(last)))
     => \A qty \in Quantities :
          \E th \in {ThresholdsOf(last)}, v \in {ReadingOf(last, qty)} :
            IsNum(v)
            => Pairs(AlertsFor(last.trace, qty))
                 = FourBranch(v.v, LowAlarm(th, qty), LowWarning(th, qty),
                              HighWarning(th, qty), HighAlarm(th, qty))

\* the DataManagerApp handled a temperature equal to temp_warning_high and
\* raised the warning of that bound
C16_Witness ==
  /\ last.coord = "app"
  /\ HandledObject(last)
  /\ last.branch = "sensor"
  /\ last.caught = "none"
  /\ OrderedThresholds(thr)
  /\ IsNum(last.raw.payload.temperature)
  /\ last.raw.payload.temperature.v = thr.temp_warning_low
  /\ Pairs(AlertsFor(last.trace, "Temperature")) = <<<<"WARNING", thr.temp_warning_low>>>>

(***************************************************************************)
(* C17                                                                     *)
(***************************************************************************)
\* C17: the control decision and the alert evaluation of one sensor message
\* use one and the same threshold set: what handle_message did for the
\* message is what it does when every comparison reads the thresholds as
\* they were before the call, or when every comparison reads them as they
\* are after it.
C17_OneThresholdSet ==
  [][(/\ last'.coord = "app"
      /\ HandledObject(last')
      /\ last'.branch = "sensor")
     => \E th \in {thr, thr'} :
          \E one \in {AppOnMessage(AppRecord,
                                   [AppEnv(last'.f) EXCEPT !.thr = th, !.thr_alerts = th],
                                   last'.raw)} :
            one.trace = last'.trace]_vars

(***************************************************************************)
(* C18                                                                     *)
(***************************************************************************)
\* the three fields __init__ creates for the control decision
ControlState == <<current_temperature, current_occupancy, last_ac_command>>

\* C18: current_temperature, current_occupancy and last_ac_command change
\* only in a step that is a handle_message call: toggle_connection (start,
\* stop, restart) and update_thresholds leave them alone.  handle_message
\* runs on the network thread of mqtt_client only, and toggle_connection
\* starts a network thread only when the previous one has ended, so two
\* handle_message calls never overlap.
C18_ControlStateOwnedByMessages ==
  /\ [][ControlState' # ControlState => last'.coord = "app"]_vars
  /\ [][(~is_active /\ is_active') => ~loop_running]_vars

\* data collection was stopped after messages had set the three fields, and
\* can be started again
C18_Witness ==
  /\ program = "data_manager"
  /\ gui_pc = "idle"
  /\ ~is_active
  /\ mqtt_client
  /\ ~loop_running
  /\ current_occupancy
  /\ IsNum(current_temperature)
  /\ last_ac_command = "True"

(***************************************************************************)
(* C19                                                                     *)
(***************************************************************************)
\* the effects by which handle_message raises an alert: the row and the
\* message under 'alarms' or 'warnings'
AlertStep(e) ==
  \/ e.op = "insert_alert"
  \/ e.op = "publish" /\ e.qty \in {"alarms", "warnings"}

\* the effect by which handle_message issues a control command
ControlStep(e) == e.op = "send_ac_control_command"

\* C19: within one sensor message of DataManagerApp the sensor row is the
\* first effect, and every alert row and alert publication precedes the
\* control command issued for that message.
C19_PipelineOrder ==
  (/\ last.coord = "app"
   /\ HandledObject(last)
   /\ last.branch = "sensor")
  => /\ last.trace # <<>> => last.trace[1].op = "insert_sensor_data"
     /\ \A i, j \in 1..Len(last.trace) :
          (AlertStep(last.trace[i]) /\ ControlStep(last.trace[j])) => i < j

(***************************************************************************)
(* C20                                                                     *)
(***************************************************************************)
\* last_ac_command after the step agrees with rules 1-3 of
\* check_and_control_ac, read on the fields after the step and on the
\* thresholds check_and_control_ac compared with
AgreesWithRules ==
  /\ ~current_occupancy' => last_ac_command' = "False"
  /\ (current_occupancy' /\ current_temperature'.v > thr.temp_warning_high)
     => last_ac_command' = "True"
  /\ (current_occupancy' /\ current_temperature'.v < thr.temp_warning_low)
     => last_ac_command' = "False"

\* C20: with the bus connected, after every message that updates
\* current_temperature or current_occupancy and leaves a numeric
\* temperature, last_ac_command agrees with rules 1-3.
C20_DecisionRerunWhenConnected ==
  [][(/\ CheckRan(last')
      /\ mqtt_client /\ connected
      /\ IsNum(current_temperature'))
     => AgreesWithRules]_vars

(***************************************************************************)
(* C21                                                                     *)
(***************************************************************************)
\* the callback l called send_ac_control_command and nothing reached the
\* control topic
ControlFailed(l) ==
  /\ l.coord = "app"
  /\ Events(l.trace, "send_ac_control_command") # <<>>
  /\ Published(l.trace, "ac_controller_control") = <<>>

\* the publications of alerts the callback attempted, failed ones included
AlertPublishes(tr) ==
  LET IsAttempt(e) == e.op = "publish" /\ e.qty \in {"alarms", "warnings"}
  IN SelectSeq(tr, IsAttempt)

\* C21: when the command issued by one callback did not reach the bus and
\* the next message leads to the same decision, that message issues no
\* command; one callback writes the sensor row at most once, writes at most
\* one alert per quantity and attempts at most one publication per alert,
\* and every alert it writes is for a reading of its own message.
C21_NoReplay ==
  /\ [][(/\ ControlFailed(last)
         /\ CheckRan(last')
         /\ Collecting
         /\ IsNum(current_temperature')
         /\ B2S(ShouldAcBeOn(current_temperature'.v, current_occupancy', thr))
              = B2S(issued[Len(issued)] = "turn_on"))
        => /\ Events(last'.trace, "send_ac_control_command") = <<>>
           /\ issued' = issued]_vars
  /\ [](/\ Len(Events(last.trace, "insert_sensor_data")) <= 1
        /\ \A qty \in Quantities : Len(AlertsFor(last.trace, qty)) <= 1
        /\ Len(AlertPublishes(last.trace)) <= Len(Events(last.trace, "insert_alert"))
        /\ \A i \in 1..Len(last.trace) :
             last.trace[i].op = "insert_alert"
               => last.trace[i].val = ReadingOf(last, last.trace[i].qty).v)

\* a command was issued and failed to reach the bus; the callback that just
\* returned came to the same decision and issued nothing
C21_Witness ==
  /\ CheckRan(last)
  /\ Collecting
  /\ IsNum(current_temperature)
  /\ issued # <<>>
  /\ Events(last.trace, "send_ac_control_command") = <<>>
  /\ B2S(ShouldAcBeOn(current_temperature.v, current_occupancy, thr)) = last_ac_command
  /\ B2S(issued[Len(issued)] = "turn_on") = last_ac_command

(***************************************************************************)
(* C22                                                                     *)
(***************************************************************************)
\* C22: as long as current_temperature is None no control command has been
\* issued and last_ac_command is None, whatever occupancy messages have
\* been handled; a callback that leaves current_temperature None sends
\* nothing.
C22_NoCommandBeforeTemperature ==
  current_temperature.tag = "none"
    => /\ issued = <<>>
       /\ last_ac_command = "None"
       /\ Events(last.trace, "send_ac_control_command") = <<>>

\* the second message was an occupancy message that found the office
\* occupied while collecting, and no temperature has arrived
C22_Witness ==
  /\ CheckRan(last)
  /\ last.branch = "occupancy"
  /\ Collecting
  /\ delivered >= 2
  /\ current_occupancy
  /\ current_temperature.tag = "none"
  /\ issued = <<>>

(***************************************************************************)
(* C23                                                                     *)
(***************************************************************************)
\* the callback l took the sensor branch of its coordinator
SensorBranch(l) == HandledObject(l) /\ l.branch = "sensor"

\* C23: in both coordinators a sensor message writes its sensor row (when
\* that insert does not fail) and raises no alert for a quantity it has no
\* value for; in DataManagerApp a sensor message without a temperature
\* value leaves current_temperature and last_ac_command as they were and
\* issues no control command.
C23_AbsentNotEvaluated ==
  /\ [](SensorBranch(last)
          => /\ "insert_sensor_data" \notin last.f
                  => Len(Committed(last.trace, "insert_sensor_data")) = 1
             /\ \A qty \in Quantities :
                  ReadingOf(last, qty).tag = "none" => AlertsFor(last.trace, qty) = <<>>
             /\ (\A qty \in Quantities : ReadingOf(last, qty).tag = "none")
                  => AlertPublishes(last.trace) = <<>>)
  /\ [][(/\ last'.coord = "app"
         /\ SensorBranch(last')
         /\ ReadingOf(last', "Temperature").tag = "none")
        => /\ current_temperature' = current_temperature
           /\ last_ac_command' = last_ac_command
           /\ issued' = issued
           /\ Events(last'.trace, "send_ac_control_command") = <<>>]_vars

\* DataManagerApp knows a temperature and has handled a message without the
\* temperature key: the row is written, the humidity raised its alarm and
\* the temperature is still known
C23_Witness ==
  /\ last.coord = "app"
  /\ SensorBranch(last)
  /\ ~HasKey(last.raw.payload.temperature)
  /\ Collecting
  /\ IsNum(current_temperature)
  /\ last_ac_command # "None"
  /\ Len(Committed(last.trace, "insert_sensor_data")) = 1
  /\ AlertsFor(last.trace, "Temperature") = <<>>
  /\ Len(AlertsFor(last.trace, "Humidity")) = 1

(***************************************************************************)
(* C24                                                                     *)
(***************************************************************************)
\* the callback l handled a JSON object that no branch of handle_message
\* and no storing branch of process_message takes
UnknownMessage(l) ==
  /\ HandledObject(l)
  /\ AppBranch(l.raw.payload) = "unknown"
  /\ CollectorBranch(l.raw.payload) = "other"

\* the effects of a callback other than lines of the activity log
Writes(tr) ==
  LET IsWrite(e) == e.op # "log_message" IN SelectSeq(tr, IsWrite)

\* C24: with nothing failing, a message classified Unknown leaves one
\* generic log row and no other effect: no sensor row, no actuator row, no
\* alert, no publication, no control command; the control fields are as
\* before.
C24_UnknownLoggedOnly ==
  /\ []((UnknownMessage(last) /\ last.f = {})
          => /\ Len(Committed(last.trace, "insert_system_log")) = 1
             /\ Len(Writes(last.trace)) = 1)
  /\ [][UnknownMessage(last')
          => /\ ControlState' = ControlState
             /\ issued' = issued]_vars

(***************************************************************************)
(* C25                                                                     *)
(***************************************************************************)
\* C25: at most one thread is between the acquisition and the release of
\* _lock; the lock is held exactly while some thread is there, so a failure
\* inside the with block releases it and a thread waiting for the lock gets
\* it and returns; every row of a table belongs to an insert call that
\* returned success or has committed and is about to, so a call that fails
\* adds nothing and a call that succeeds adds one row.
C25_StoreExclusiveAtomic ==
  /\ [](Cardinality({c \in Callers : InCritical(c)}) <= 1)
  /\ [](db_lock <=> \E c \in Callers : InCritical(c))
  /\ [](\A op \in DbOps :
          db_rows[op] = db_done[op]
                        + Cardinality({c \in Callers :
                                         db_pc[c] = "committed" /\ db_op[c] = op}))
  /\ \A c \in Callers : (db_pc[c] = "try") ~> (db_pc[c] = "idle")

\* a row is committed, one thread is inside an insert and the other thread
\* waits for the lock
C25_Witness ==
  \E c, d \in Callers :
    /\ c # d
    /\ db_pc[c] = "executed"
    /\ db_op[c] \in DbOps
    /\ db_pc[d] = "try"
    /\ \E op \in DbOps : db_done[op] >= 1

(***************************************************************************)
(* C26                                                                     *)
(***************************************************************************)
\* the callback l of DataManagerApp handled a control command coming back
\* from the bus
EchoedCommand(l) ==
  /\ l.coord = "app"
  /\ HandledObject(l)
  /\ l.raw.payload \in CommandPayloads

\* C26: once a control command has been issued, a control command that
\* comes back from the bus issues no further command, leaves
\* current_temperature as it is and writes no sensor row and no alert.
C26_EchoIsInert ==
  [][(EchoedCommand(last') /\ issued # <<>>)
       => /\ issued' = issued
          /\ current_temperature' = current_temperature
          /\ Events(last'.trace, "insert_sensor_data") = <<>>
          /\ Events(last'.trace, "insert_alert") = <<>>]_vars

(***************************************************************************)
(* C27                                                                     *)
(***************************************************************************)
\* C27: last_ac_command changes only in a callback that put a control
\* command on the bus, and then holds the direction of that command.
C27_LastCommandIsSent ==
  [][last_ac_command' # last_ac_command
       => /\ last'.coord = "app"
          /\ Published(last'.trace, "ac_controller_control") # <<>>
          /\ last_ac_command'
               = B2S(Published(last'.trace, "ac_controller_control")[1].sev = "turn_on")]_vars

(***************************************************************************)
(* C28                                                                     *)
(***************************************************************************)
\* the command rules 1-3 ask for on the control fields after the step
Desired == B2S(ShouldAcBeOn(current_temperature'.v, current_occupancy', thr))

\* C28: a callback that calls check_and_control_ac while collection is
\* inactive or the client is disconnected stores the temperature or the
\* occupancy of its message, issues no command and leaves last_ac_command
\* as it was; a callback that calls it while collecting, with a numeric
\* temperature, issues the command the rules ask for whenever that differs
\* from last_ac_command, so a decision that was suppressed is issued then.
C28_SuppressedNotRecorded ==
  /\ [][(CheckRan(last') /\ ~Collecting)
          => /\ issued' = issued
             /\ last_ac_command' = last_ac_command
             /\ Events(last'.trace, "send_ac_control_command") = <<>>
             /\ last'.branch = "sensor"
                  => current_temperature' = ReadingOf(last', "Temperature")
             /\ last'.branch = "occupancy"
                  => current_occupancy' = (last'.raw.payload.state = "ON"
                                           \/ last'.raw.payload.occupancy = "Occupied")]_vars
  /\ [][(CheckRan(last') /\ Collecting /\ IsNum(current_temperature'))
          => /\ last_ac_command' = Desired
             /\ issued' = IF Desired # last_ac_command
                            THEN Append(issued, IF Desired = "True" THEN "turn_on"
                                                ELSE "turn_off")
                            ELSE issued]_vars

\* a message handled while collection was inactive left a decision that
\* differs from last_ac_command and was not sent
C28_Witness ==
  /\ CheckRan(last)
  /\ ~Collecting
  /\ IsNum(current_temperature)
  /\ B2S(ShouldAcBeOn(current_temperature.v, current_occupancy, thr)) # last_ac_command
  /\ Events(last.trace, "send_ac_control_command") = <<>>

(***************************************************************************)
(* C29                                                                     *)
(***************************************************************************)
\* C29: a callback of DataManagerApp in which handle_message ended in its
\* except clause leaves current_temperature, current_occupancy and
\* last_ac_command as they were before the message.
C29_ErrorKeepsControlState ==
  [][(/\ last'.coord = "app"
      /\ HandledObject(last')
      /\ last'.caught # "none")
       => ControlState' = ControlState]_vars

(***************************************************************************)
(* C30                                                                     *)
(***************************************************************************)
\* C30: every alert MqttDataCollector puts on the bus follows, in the same
\* callback, a committed insert_alert of the same severity, value and
\* threshold, whose row id it carries.
C30_PublishedAlertHasRow ==
  last.coord = "collector"
    => \A i \in 1..Len(last.trace) :
         (last.trace[i].op = "publish" /\ last.trace[i].ok)
           => /\ i > 1
              /\ last.trace[i - 1].op = "insert_alert"
              /\ last.trace[i - 1].ok
              /\ last.trace[i - 1].sev = last.trace[i].sev
              /\ last.trace[i - 1].val = last.trace[i].val
              /\ last.trace[i - 1].thr = last.trace[i].thr

============================================================================
